---- MODULE Spec2Model ----
(***************************************************************************)
(* Lead-generation interaction state machine of the payment service:      *)
(* teaser dispatch, provider SMS replies (Y / N / STOP), checkout-session *)
(* issuance and the payment-completion webhook that reveals the client's  *)
(* details.  Every handler is an async function; one model step is the    *)
(* code between two awaits (one SQL statement, one SMS send or one call   *)
(* to the payment processor), so concurrent requests interleave exactly   *)
(* at the await points of the source.                                     *)
(***************************************************************************)
EXTENDS Integers, Sequences, FiniteSets, TLC

\* ------------------------------------------------------------------ bounds
MaxRequests == 4     \* requests (teaser dispatches, replies, webhooks) received
MaxOverlapped == 3   \* requests received when handlers run concurrently
MaxDays == 1         \* days of wall-clock time that pass
MaxShort == 3        \* requests received in the behaviours that span days
                     \* and in the fair behaviours
MaxWords == 3        \* words of the notes a lead is created with
MaxJobOps == 4       \* payment webhooks received and transfer runs started

\* --------------------------------------------------------------- constants
TtlHours == 24       \* lead_config.ttl_hours default

LeadIds == {"L1", "L2"}
ProviderIds == {"P1", "P2"}
\* payment intents: one per checkout session (0: none)
PaymentIntents == 0..MaxRequests
Req == {1, 2}        \* request handlers that can be in flight together

\* wall-clock times (minute of the day) at which the service is observed
StartTimes == {9 * 60, 21 * 60 + 45, 22 * 60}
Daytime == 9 * 60

\* lead_config defaults: quiet hours from 21:30 to 08:00
QuietStartHour == 21
QuietStartMinute == 30
QuietEndHour == 8
QuietEndMinute == 0

NULL == "NULL"
NullTime == -1
NullUrl == <<>>
NoSession == 0

\* providers table: id -> phone on record
providers == [p \in ProviderIds |-> IF p = "P1" THEN "T1" ELSE "T2"]

\* ---------------------------------------------------------------- messages
PublicAttrs == {"city", "service_type", "preferred_time_window", "budget_range",
                "notes_snippet", "lead_id"}
PrivateAttrs == {"client_name", "client_phone", "client_email", "exact_address",
                 "original_notes"}

\* A teaser template that greets with the client's name.
createTeaserMessageWithName(leadId) ==
  [kind |-> "teaser", lead_id |-> leadId, url |-> NullUrl,
   attrs |-> {"client_name", "city", "service_type", "preferred_time_window",
              "budget_range", "notes_snippet", "lead_id"}]

\* The lead columns each message template interpolates.
createTeaserMessage(leadId) ==
  [kind |-> "teaser", lead_id |-> leadId, url |-> NullUrl,
   attrs |-> {"city", "service_type", "preferred_time_window", "budget_range",
              "notes_snippet", "lead_id"}]

PaymentLinkMessage(leadId, url) ==
  [kind |-> "payment_link", lead_id |-> leadId, url |-> url, attrs |-> {"lead_id"}]

ResendMessage(leadId, url) ==
  [kind |-> "resend", lead_id |-> leadId, url |-> url, attrs |-> {}]

RevealMessage(leadId) ==
  [kind |-> "reveal", lead_id |-> leadId, url |-> NullUrl,
   attrs |-> {"client_name", "client_phone", "client_email", "exact_address",
              "service_type", "preferred_time_window", "budget_range",
              "original_notes", "lead_id"}]

\* sendSMS(phone, message): the text as it goes out to a phone number
Sms(phone, m) ==
  [to |-> phone, kind |-> m.kind, lead_id |-> m.lead_id, url |-> m.url,
   attrs |-> m.attrs]

NoSms == [to |-> NULL, kind |-> "none", lead_id |-> NULL, url |-> NullUrl, attrs |-> {}]

VARIABLES
  leads,              \* leads table: ids of the rows present
  lead_interactions,  \* lead_interactions table: set of rows
  nextId,             \* lead_interactions.id SERIAL
  provider_optouts,   \* provider_optouts table: provider ids present
  sessions,           \* checkout sessions minted at the payment processor
  sms,                \* the SMS channel: the text handed to it since the latest request arrived
  reveals,            \* number of reveal SMS sent, per payment intent of a minted session
  verified,           \* (lead, provider) of the authentic completion events received
  started,            \* requests received so far
  now,                \* wall clock, in minutes
  req,                \* request handlers: position and locals of each
  mode,               \* "conc": requests overlap; otherwise they arrive one at a time
  last,               \* seq mode: the current or latest request as its caller sees it
  build,              \* which version of stripe.js the repository holds is deployed
  jobs,               \* jobs table: set of rows
  transfers,          \* transfers created at the payment processor
  runs                \* runDailyTransfers in progress: position and locals of each

vars == <<leads, lead_interactions, nextId, provider_optouts, sessions, sms,
          reveals, verified, started, now, req, mode, last,
          build, jobs, transfers, runs>>

db == <<leads, lead_interactions, nextId, provider_optouts>>
hist == <<reveals, verified, started>>
payments == <<build, jobs, transfers, runs>>

\* ------------------------------------------------------- payment processor
\* A session whose metadata names a fixed lead.
SessionForFirstLead(n, leadId, providerId) ==
  [id |-> n, url |-> <<"url", n>>, lead_id |-> "L1", provider_id |-> providerId,
   service_type |-> "lead_access"]

\* A checkout session as stripe.checkout.sessions.create returns it.
Session(n, leadId, providerId) ==
  [id |-> n, url |-> <<"url", n>>, lead_id |-> leadId, provider_id |-> providerId,
   service_type |-> "lead_access"]

\* checkout.session.completed for a minted session, signed by the processor
CompletionEvent(s) ==
  [sig |-> TRUE, type |-> "checkout.session.completed",
   service_type |-> s.service_type, lead_id |-> s.lead_id,
   provider_id |-> s.provider_id, payment_intent |-> s.id]

\* checkout.session.expired for a minted session (the sessions are created
\* with expires_at), signed by the processor
ExpiredEvent(s) ==
  [sig |-> TRUE, type |-> "checkout.session.expired",
   service_type |-> s.service_type, lead_id |-> s.lead_id,
   provider_id |-> s.provider_id, payment_intent |-> 0]

\* Signed events of the same account that are not lead purchases: another
\* event type, and the completion of a massage_service checkout.
OtherEvents ==
  {[sig |-> TRUE, type |-> "payment_intent.created", service_type |-> NULL,
    lead_id |-> NULL, provider_id |-> NULL, payment_intent |-> 0],
   [sig |-> TRUE, type |-> "checkout.session.completed",
    service_type |-> "massage_service", lead_id |-> NULL, provider_id |-> NULL,
    payment_intent |-> 0]}

\* Signed checkout.session.completed events tagged lead_access for sessions
\* of the account that this service did not mint: their metadata may lack
\* lead_id or provider_id, or name any lead and any provider id.  "P0" is an
\* id with no row in the providers table.
ForeignMetadata ==
  {<<"L1", "P1">>, <<"L1", "P0">>, <<NULL, "P1">>, <<"L1", NULL>>}
ForeignEvents ==
  {[sig |-> TRUE, type |-> "checkout.session.completed",
    service_type |-> "lead_access", lead_id |-> md[1], provider_id |-> md[2],
    payment_intent |-> MaxRequests] : md \in ForeignMetadata}

\* Requests whose signature does not verify: anybody can post any body.
ForgedEvents ==
  {[sig |-> FALSE, type |-> "checkout.session.completed",
    service_type |-> "lead_access", lead_id |-> l, provider_id |-> p,
    payment_intent |-> 1] : l \in LeadIds, p \in ProviderIds}

\* ------------------------------------------------------------------- time
getHours(t) == (t \div 60) % 24

isQuietHours(t) ==
  LET hour == getHours(t) IN 10 * hour >= 215 \/ hour < 8

\* The configured quiet-hours window (it wraps over midnight).
InQuietWindow(t) ==
  LET m == t % (24 * 60) IN
    \/ m >= QuietStartHour * 60 + QuietStartMinute
    \/ m < QuietEndHour * 60 + QuietEndMinute

\* --------------------------------------------------------- reply messages
\* Inbound SMS bodies, as sequences of characters.
Messages ==
  {<<" ", "y">>, <<"Y", "e", "s">>, <<"n", " ">>, <<"N", "O">>,
   <<"s", "t", "o", "p">>, <<"o", "k">>}

IsSpace(c) == c = " "

RECURSIVE trimStart(_)
trimStart(m) ==
  IF m = <<>> THEN m
  ELSE IF IsSpace(Head(m)) THEN trimStart(Tail(m)) ELSE m

RECURSIVE trimEnd(_)
trimEnd(m) ==
  IF m = <<>> THEN m
  ELSE IF IsSpace(m[Len(m)]) THEN trimEnd(SubSeq(m, 1, Len(m) - 1)) ELSE m

trim(m) == trimEnd(trimStart(m))

UpperOf(c) ==
  CASE c = "y" -> "Y" [] c = "e" -> "E" [] c = "s" -> "S" [] c = "n" -> "N"
    [] c = "o" -> "O" [] c = "t" -> "T" [] c = "p" -> "P" [] c = "k" -> "K"
    [] OTHER -> c

toUpperCase(m) == [i \in 1..Len(m) |-> UpperOf(m[i])]

\* message.trim().toUpperCase()
Normalize(m) == toUpperCase(trim(m))

\* ------------------------------------------------------ lead_interactions
Rows(leadId, providerId) ==
  {r \in lead_interactions : r.lead_id = leadId /\ r.provider_id = providerId}

UpdateRows(leadId, providerId, F(_)) ==
  {IF r.lead_id = leadId /\ r.provider_id = providerId THEN F(r) ELSE r :
     r \in lead_interactions}

NewRow(id, leadId, providerId, status, ttl) ==
  [id |-> id, lead_id |-> leadId, provider_id |-> providerId, status |-> status,
   last_sent_at |-> NullTime, ttl_expires_at |-> ttl, unlocked_at |-> NullTime,
   payment_link_url |-> NullUrl, checkout_session_id |-> NoSession,
   payment_intent_id |-> 0]

\* A plain INSERT, without the ON CONFLICT clause.
insertLeadInteraction(leadId, providerId, status) ==
  lead_interactions \cup
    {NewRow(nextId, leadId, providerId, status, now + TtlHours * 60)}

\* INSERT .. ON CONFLICT (lead_id, provider_id) DO UPDATE SET status = $3
upsertLeadInteraction(leadId, providerId, status) ==
  IF Rows(leadId, providerId) # {}
    THEN UpdateRows(leadId, providerId, LAMBDA r : [r EXCEPT !.status = status])
    ELSE lead_interactions \cup
           {NewRow(nextId, leadId, providerId, status, now + TtlHours * 60)}

\* An UPDATE whose WHERE clause names the lead only.
updateInteractionStatusByLead(leadId, providerId, status) ==
  {IF r.lead_id = leadId THEN [r EXCEPT !.status = status] ELSE r :
     r \in lead_interactions}

\* UPDATE lead_interactions SET status = $3 WHERE lead_id = $1 AND provider_id = $2
updateInteractionStatus(leadId, providerId, status) ==
  UpdateRows(leadId, providerId, LAMBDA r : [r EXCEPT !.status = status])

\* ------------------------------------------------------------ notes snippet
\* Free text as stripPIIFromNotes sees it: a sequence of pieces, each a run
\* of characters (t: what the run is, w: its length in characters).  The
\* words below are separated by single blanks; none of them contains "i'm"
\* or a house number followed by a street word, so the replacements of
\* lines 77 and 79 of part_006 find no match in a text made of them.
Piece(t, w) == [t |-> t, w |-> w]
Blank == Piece(" ", 1)
ClientName == Piece("Ann", 3)             \* client_name as supplied with the lead
Prose == Piece("prose", 155)              \* 155 letters of ordinary text
DashedPhone == Piece("555-123-4567", 12)
ParenPhone == Piece("(555) 123-4567", 14)
Email == Piece("a@b.co", 6)
MyNameIs == Piece("my name is", 10)
Words == {Piece("call", 4), ClientName, Prose, DashedPhone, ParenPhone, Email,
          MyNameIs}

SnippetLimit == 160

Join(ws) ==
  [i \in 1..(2 * Len(ws) - 1) |-> IF i % 2 = 1 THEN ws[(i + 1) \div 2] ELSE Blank]

\* original_notes of a lead: missing, or up to MaxWords words
NotesInputs ==
  {<<>>} \cup UNION {{Join(ws) : ws \in [1..n -> Words]} : n \in 1..MaxWords}

RECURSIVE TextLen(_)
TextLen(s) == IF s = <<>> THEN 0 ELSE Head(s).w + TextLen(Tail(s))

\* the piece ends in a letter, digit or underscore (for \b)
EndsInWordChar(p) == p.t \in {"call", "Ann", "prose", "555-123-4567",
                              "(555) 123-4567", "a@b.co", "my name is", "cut"}
\* the piece consists of letters and whitespace only ([A-Za-z\s]+)
IsLetters(p) == p.t \in {"call", "Ann", "prose", "my name is", " "}

\* .replace(/\b\d{3}[-.]?\d{3}[-.]?\d{4}\b/g, '[PHONE]')
ReplaceDigitPhone(s) ==
  [i \in 1..Len(s) |-> IF s[i] = DashedPhone THEN Piece("[PHONE]", 7) ELSE s[i]]

\* .replace(/\b\(\d{3}\)\s?\d{3}[-.]?\d{4}\b/g, '[PHONE]'): the leading \b
\* stands before "(", so it needs a word character right before the bracket
ReplaceParenPhone(s) ==
  [i \in 1..Len(s) |->
     IF s[i] = ParenPhone /\ i > 1 /\ EndsInWordChar(s[IF i > 1 THEN i - 1 ELSE 1])
       THEN Piece("[PHONE]", 7) ELSE s[i]]

\* .replace(/\b[A-Za-z0-9._%+-]+@[A-Za-z0-9.-]+\.[A-Z|a-z]{2,}\b/g, '[EMAIL]')
ReplaceEmail(s) ==
  [i \in 1..Len(s) |-> IF s[i] = Email THEN Piece("[EMAIL]", 7) ELSE s[i]]

RECURSIVE LettersRun(_)
LettersRun(s) ==
  IF s = <<>> THEN 0
  ELSE IF IsLetters(Head(s)) THEN 1 + LettersRun(Tail(s)) ELSE 0

\* .replace(/\bmy name is\s+[A-Za-z\s]+/gi, 'my name is [NAME]'): the phrase,
\* the blank after it and the longest run of letters and blanks that follows
RECURSIVE ReplaceName(_)
ReplaceName(s) ==
  IF s = <<>> THEN <<>>
  ELSE IF Head(s) = MyNameIs /\ LettersRun(Tail(s)) >= 2
    THEN <<Piece("my name is [NAME]", 17)>>
           \o ReplaceName(SubSeq(s, LettersRun(Tail(s)) + 2, Len(s)))
    ELSE <<Head(s)>> \o ReplaceName(Tail(s))

\* .substring(0, n): a piece that straddles the limit is cut
RECURSIVE substring(_, _)
substring(s, n) ==
  IF s = <<>> \/ n = 0 THEN <<>>
  ELSE IF Head(s).w <= n
    THEN <<Head(s)>> \o substring(Tail(s), n - Head(s).w)
    ELSE <<Piece(IF Head(s) = Prose THEN "prose" ELSE "cut", n)>>

RECURSIVE trimText(_)
trimText(s) ==
  IF s = <<>> THEN s
  ELSE IF Head(s) = Blank THEN trimText(Tail(s))
  ELSE IF s[Len(s)] = Blank THEN trimText(SubSeq(s, 1, Len(s) - 1))
  ELSE s

stripPIIFromNotes(notes) ==
  IF notes = <<>> THEN <<>>
  ELSE trimText(substring(
         ReplaceName(ReplaceEmail(ReplaceParenPhone(ReplaceDigitPhone(notes)))),
         SnippetLimit))

\* ------------------------------------------------------- provider matching

\* The columns of a providers row that getMatchingProviders reads.
NullAreas == {NULL}      \* service_areas IS NULL
ProviderRows ==
  [is_verified : BOOLEAN, service_areas : {NullAreas} \cup {{c} : c \in {"Miami", "Tampa"}}]

\* SELECT DISTINCT p.* FROM providers p WHERE p.is_verified = true, then
\*   AND p.id = ANY($1)                                        (ids supplied)
\*   AND p.service_areas IS NULL OR $1 = ANY(p.service_areas)  (no ids)
\* AND binds tighter than OR; = ANY of a NULL array is not true.
getMatchingProviders(table, city, specificProviderIds) ==
  IF specificProviderIds # {}
    THEN {p \in DOMAIN table : table[p].is_verified /\ p \in specificProviderIds}
    ELSE {p \in DOMAIN table :
            \/ table[p].is_verified /\ table[p].service_areas = NullAreas
            \/ table[p].service_areas # NullAreas /\ city \in table[p].service_areas}

\* ----------------------------------------------------------- admin queries
\* The amount the statistics query adds per interaction it counts as paid.
LeadPriceCents == 2000

\* GET /leads/active: COUNT(CASE WHEN li.status = 'PAID' THEN 1 END) of the
\* interactions joined to the lead
providers_paid(leadId) ==
  Cardinality({x \in lead_interactions : x.lead_id = leadId /\ x.status = "PAID"})

\* GET /leads/stats: COUNT(DISTINCT CASE WHEN li.status = 'PAID' THEN l.lead_id END)
purchased_leads ==
  Cardinality({x.lead_id : x \in {y \in lead_interactions :
                                    y.lead_id \in leads /\ y.status = "PAID"}})

\* GET /leads/stats: SUM(CASE WHEN li.status = 'PAID' THEN 2000 ELSE 0 END)
total_revenue_cents ==
  LeadPriceCents * Cardinality({x \in lead_interactions :
                                  x.lead_id \in leads /\ x.status = "PAID"})

\* ---------------------------------------------------------------- requests
Idle ==
  [op |-> "idle", pc |-> "idle", lead |-> NULL, provider |-> NULL,
   response |-> <<>>, payment_intent |-> 0, existing |-> NullUrl,
   link |-> NoSession]

\* What the caller of a request can observe of it: its arguments (arg: the
\* normalised reply text, or the signature, type and tag of a webhook event),
\* the number of SMS it sent and its result; with it, what the tables held
\* for its (lead, provider) when it arrived (pre: the statuses of the pair,
\* opted: the provider had an opt-out record).
NoLast ==
  [op |-> "none", lead |-> NULL, provider |-> NULL, arg |-> <<>>, pre |-> {},
   opted |-> FALSE, sent |-> 0, result |-> NULL]

Arrived(op, leadId, providerId, arg) ==
  [op |-> op, lead |-> leadId, provider |-> providerId, arg |-> arg,
   pre |-> {x.status : x \in Rows(leadId, providerId)},
   opted |-> providerId \in provider_optouts, sent |-> 0, result |-> "pending"]

AllIdle == \A q \in Req : req[q].op = "idle"
\* A request takes the first free handler slot.
CanStart(r) ==
  /\ req[r].op = "idle"
  /\ \A q \in Req : q < r => req[q].op # "idle"
  /\ mode # "conc" => AllIdle
  /\ started < (CASE mode = "conc" -> MaxOverlapped
                  [] mode \in {"live", "clock"} -> MaxShort
                  [] OTHER -> MaxRequests)

Observe(F(_)) == last' = IF mode # "conc" THEN F(last) ELSE last
At(r, op, pc) == req[r].op = op /\ req[r].pc = pc

Begin(r, rec, obs) ==
  /\ req' = [req EXCEPT ![r] = rec]
  /\ last' = IF mode # "conc" THEN obs ELSE last
  /\ started' = started + 1
  /\ sms' = NoSms

\* a request that is answered before its first await
BeginDone(r, obs, result) ==
  /\ req' = req
  /\ last' = IF mode # "conc" THEN [obs EXCEPT !.result = result] ELSE last
  /\ started' = started + 1
  /\ sms' = NoSms

Goto(r, pc) ==
  /\ req' = [req EXCEPT ![r].pc = pc]
  /\ UNCHANGED last

GotoWith(r, rec) ==
  /\ req' = [req EXCEPT ![r] = rec]
  /\ UNCHANGED last

Finish(r, result) ==
  /\ req' = [req EXCEPT ![r] = Idle]
  /\ Observe(LAMBDA o : [o EXCEPT !.result = result])

\* sendSMS: the stub logs the text and returns { sent: true }
sendSMS(r, phone, m, pc) ==
  /\ sms' = Sms(phone, m)
  /\ req' = [req EXCEPT ![r].pc = pc]
  /\ Observe(LAMBDA o : [o EXCEPT !.sent = @ + 1])

\* sendSMS as the last statement of a handler
sendSMSFinish(r, phone, m, result) ==
  /\ sms' = Sms(phone, m)
  /\ req' = [req EXCEPT ![r] = Idle]
  /\ Observe(LAMBDA o : [o EXCEPT !.sent = @ + 1, !.result = result])

\* ------------------------------------------------------- payments proper
\* The repository holds three versions of stripe.js: the file of that name,
\* the one in part_007 and the one in part_008.  They differ in three places.
\* handleStripeWebhook: stripe.js and part_008 answer 400 when constructEvent
\* throws; part_007 then parses the body and goes on with the event.
VerifiesStrictly(b) == b \in {"stripe.js", "part_008"}

\* handleCheckoutCompleted: part_008 calls upsertJob({ id, providerId, .. });
\* stripe.js and part_007 call upsertJob(session.id, providerId, ..), which
\* binds the parameter job of upsertJob(job) to the id string: job.id and
\* job.providerId are undefined, the INSERT gets NULL for the NOT NULL
\* columns and throws.
UpsertCallBindsJob(b) == b = "part_008"

\* runDailyTransfers: part_008 sums into totals[job.providerId]; stripe.js
\* and part_007 into totals[job.provider_id], a column the SELECT of
\* listPaidJobsForDate renames to "providerId", so the only key is undefined.
TotalsKeyedByProvider(b) == b = "part_008"

JobSessions == {"cs_1", "cs_2"}
NoTransfer == 0
Runs == {1, 2}

\* req.body as the handler finds it: the Buffer that bodyParser.raw leaves, an
\* object that an earlier parser left, or nothing that JSON.parse accepts
\* the requests POST /stripe-webhook receives; sig: constructEvent accepts
JobEvents ==
  {ev \in [sig : BOOLEAN, body : {"buffer", "object", "unparsable"},
           type : {"checkout.session.completed", "account.updated"},
           id : JobSessions, provider_id : ProviderIds \cup {NULL}] :
     /\ ev.sig => ev.body # "unparsable"
     \* metadata.provider_id of the checkout session, when it has one
     /\ ev.provider_id \in {IF ev.id = "cs_1" THEN "P1" ELSE "P2", NULL}}

\* INSERT INTO jobs .. ON CONFLICT (id) DO UPDATE SET status = EXCLUDED.status, ..
upsertJob(id, providerId, status) ==
  IF \E j \in jobs : j.id = id
    THEN {IF j.id = id THEN [j EXCEPT !.status = status] ELSE j : j \in jobs}
    ELSE jobs \cup {[id |-> id, provider_id |-> providerId, status |-> status,
                     transfer_id |-> NoTransfer, created |-> "D1"]}

\* SELECT .. FROM jobs WHERE status = 'paid' AND DATE(created_at) = $1
\*   AND transfer_id IS NULL
listPaidJobsForDate(date) ==
  {j \in jobs : j.status = "paid" /\ j.created = date /\ j.transfer_id = NoTransfer}

\* UPDATE jobs SET status = 'transferred', transfer_id = $3 WHERE provider_id = $1
\*   AND DATE(created_at) = $2 AND status = 'paid' AND transfer_id IS NULL
markJobsTransferred(providerId, date, transferId) ==
  {IF /\ j.provider_id = providerId /\ j.created = date
      /\ j.status = "paid" /\ j.transfer_id = NoTransfer
     THEN [j EXCEPT !.status = "transferred", !.transfer_id = transferId]
     ELSE j : j \in jobs}

IdleRun == [pc |-> "idle", date |-> NULL, listed |-> {}, todo |-> {}, cur |-> NULL,
            transfer |-> NoTransfer]

\* No payment was received and no transfer run was started.
InitPayments ==
  /\ jobs = {}
  /\ transfers = {}
  /\ runs = [k \in Runs |-> IdleRun]

InitTables ==
  /\ build = "stripe.js"
  /\ InitPayments
  /\ leads = {}
  /\ lead_interactions = {}
  /\ nextId = 1
  /\ provider_optouts = {}
  /\ sessions = {}
  /\ sms = NoSms
  /\ reveals = [i \in PaymentIntents |-> 0]
  /\ verified = {}
  /\ started = 0
  /\ now \in StartTimes
  /\ req = [r \in Req |-> Idle]
  /\ last = NoLast

\* Requests handled one after the other.
Init == InitTables /\ mode = "seq"

\* Requests handled one after the other while days pass.
InitClock == InitTables /\ mode = "clock" /\ now = Daytime

\* Requests handled one after the other, every handler running to its end.
InitLive == InitTables /\ mode = "live" /\ now = Daytime

\* Requests handled concurrently, as the HTTP server does.
InitConc == InitTables /\ mode = "conc" /\ now = Daytime

\* Requests handled concurrently from the state that a teaser of (L1, P1)
\* sent at 09:00 and the provider's "Y" leave behind: the row holds the link
\* of session 1 and the provider has the payment page open.
InitRace ==
  /\ build = "stripe.js"
  /\ InitPayments
  /\ leads = {"L1"}
  /\ lead_interactions =
       {[NewRow(1, "L1", "P1", "PAYMENT_LINK_SENT", Daytime + TtlHours * 60)
           EXCEPT !.last_sent_at = Daytime, !.payment_link_url = <<"url", 1>>,
                  !.checkout_session_id = 1]}
  /\ nextId = 2
  /\ provider_optouts = {}
  /\ sessions = {Session(1, "L1", "P1")}
  /\ sms = NoSms
  /\ reveals = [i \in PaymentIntents |-> 0]
  /\ verified = {}
  /\ started = 0
  /\ now = Daytime
  /\ req = [r \in Req |-> Idle]
  /\ last = NoLast
  /\ mode = "conc"

\* The quiet-hours test on its own, at any minute of the day.
InitQuiet ==
  /\ build = "stripe.js"
  /\ InitPayments
  /\ leads = {}
  /\ lead_interactions = {}
  /\ nextId = 1
  /\ provider_optouts = {}
  /\ sessions = {}
  /\ sms = NoSms
  /\ reveals = [i \in PaymentIntents |-> 0]
  /\ verified = {}
  /\ started = 0
  /\ now \in 0 .. (24 * 60 - 1)
  /\ req = [r \in Req |-> Idle]
  /\ last = NoLast
  /\ mode = "fn"

\* ------------------------------------------------------------ environment
\* createLead: INSERT INTO leads; a duplicate lead_id violates the primary key.
createLead(leadId) ==
  /\ leadId \notin leads
  /\ leads' = leads \cup {leadId}
  /\ UNCHANGED <<lead_interactions, nextId, provider_optouts, sessions, sms,
                 hist, now, req, mode, last, payments>>

\* A route whose INSERT is an upsert: the duplicate is accepted and the
\* teasers of the lead go out again.
createLeadDuplicateMerged(r, leadId) ==
  /\ CanStart(r)
  /\ leadId \in leads
  /\ \E p \in ProviderIds :
       Begin(r, [Idle EXCEPT !.op = "teaser", !.pc = "optout_check",
                            !.lead = leadId, !.provider = p],
             Arrived("create_lead", leadId, NULL, <<>>))
  /\ UNCHANGED <<db, sessions, reveals, verified, now, mode, payments>>

\* POST /leads with a lead_id that exists: the INSERT of createLead violates
\* the primary key, createLead rethrows, and the route's catch answers 500
\* before getMatchingProviders and sendLeadTeaser are reached.
createLeadDuplicate(r, leadId) ==
  /\ CanStart(r)
  /\ leadId \in leads
  /\ BeginDone(r, Arrived("create_lead", leadId, NULL, <<>>), "500")
  /\ UNCHANGED <<db, sessions, reveals, verified, now, mode, payments>>

\* ---------------------------------------------------------- sendLeadTeaser
TeaserStart(r, leadId, providerId) ==
  /\ CanStart(r)
  /\ leadId \in leads
  /\ Begin(r, [Idle EXCEPT !.op = "teaser", !.pc = "optout_check",
                           !.lead = leadId, !.provider = providerId],
           Arrived("teaser", leadId, providerId, <<>>))
  /\ UNCHANGED <<db, sessions, reveals, verified, now, mode, payments>>

\* The dispatch without the opt-out lookup.
TeaserCheckNoOptOut(r) ==
  /\ At(r, "teaser", "optout_check")
  /\ IF isQuietHours(now)
       THEN Finish(r, "queued_quiet_hours")
       ELSE Goto(r, "upsert")
  /\ UNCHANGED <<db, sessions, sms, hist, now, mode, payments>>

\* SELECT * FROM provider_optouts, then the quiet-hours test
TeaserCheck(r) ==
  /\ At(r, "teaser", "optout_check")
  /\ IF req[r].provider \in provider_optouts
       THEN Finish(r, "skipped_opted_out")
       ELSE IF isQuietHours(now)
         THEN Finish(r, "queued_quiet_hours")
         ELSE Goto(r, "upsert")
  /\ UNCHANGED <<db, sessions, sms, hist, now, mode, payments>>

\* upsertLeadInteraction (ids are only ever compared for equality, so the
\* sequence is advanced by the rows inserted)
TeaserUpsert(r) ==
  /\ At(r, "teaser", "upsert")
  /\ lead_interactions' =
       upsertLeadInteraction(req[r].lead, req[r].provider, "TEASER_SENT")
  /\ nextId' = IF Rows(req[r].lead, req[r].provider) = {} THEN nextId + 1 ELSE nextId
  /\ Goto(r, "send_sms")
  /\ UNCHANGED <<leads, provider_optouts, sessions, sms, hist, now, mode, payments>>

TeaserSms(r) ==
  /\ At(r, "teaser", "send_sms")
  /\ sendSMS(r, providers[req[r].provider], createTeaserMessage(req[r].lead),
             "last_sent")
  /\ UNCHANGED <<db, sessions, hist, now, mode, payments>>

TeaserLastSent(r) ==
  /\ At(r, "teaser", "last_sent")
  /\ lead_interactions' =
       UpdateRows(req[r].lead, req[r].provider,
                  LAMBDA x : [x EXCEPT !.last_sent_at = now])
  /\ Finish(r, "sent")
  /\ UNCHANGED <<leads, nextId, provider_optouts, sessions, sms, hist, now, mode, payments>>

\* -------------------------------------------------- handleProviderResponse
ProviderByPhone(phone) == {p \in ProviderIds : providers[p] = phone}

\* POST /leads/sms-response: normalise the text, SELECT the provider by phone
ReplyStart(r, phone, message, leadId) ==
  /\ CanStart(r)
  /\ LET found == ProviderByPhone(phone)
         response == Normalize(message) IN
       IF found = {}
         THEN BeginDone(r, Arrived("reply", leadId, NULL, response),
                        "error_unknown_provider")
         ELSE LET provider == CHOOSE p \in found : TRUE IN
           Begin(r, [Idle EXCEPT !.op = "reply", !.lead = leadId,
                                 !.provider = provider, !.response = response,
                                 !.pc = IF response = <<"S", "T", "O", "P">>
                                          THEN "optout" ELSE "get_interaction"],
                 Arrived("reply", leadId, provider, response))
  /\ UNCHANGED <<db, sessions, reveals, verified, now, mode, payments>>

\* A plain INSERT: a second row for the provider violates the primary key.
handleOptOutPlainInsert(r) ==
  /\ At(r, "reply", "optout")
  /\ IF req[r].provider \in provider_optouts
       THEN provider_optouts' = provider_optouts /\ Finish(r, "throw")
       ELSE provider_optouts' = provider_optouts \cup {req[r].provider}
            /\ Finish(r, "opted_out")
  /\ UNCHANGED <<leads, lead_interactions, nextId, sessions, sms, hist, now, mode, payments>>

\* handleOptOut: INSERT INTO provider_optouts .. ON CONFLICT DO NOTHING
handleOptOut(r) ==
  /\ At(r, "reply", "optout")
  /\ provider_optouts' = provider_optouts \cup {req[r].provider}
  /\ Finish(r, "opted_out")
  /\ UNCHANGED <<leads, lead_interactions, nextId, sessions, sms, hist, now, mode, payments>>

\* A dispatch that takes every text other than N / NO for a yes.
IsYesLoose(response) == response # <<"N">> /\ response # <<"N", "O">>

IsYes(response) == response = <<"Y">> \/ response = <<"Y", "E", "S">>
IsNo(response) == response = <<"N">> \/ response = <<"N", "O">>

\* getLeadInteraction, then the dispatch on the normalised text (which is not
\* read again on the Y and N paths)
\* A dispatch on the text without the test for a missing interaction.
ReplyGetInteractionUnchecked(r) ==
  /\ At(r, "reply", "get_interaction")
  /\ IF IsYes(req[r].response)
       THEN GotoWith(r, [req[r] EXCEPT !.pc = "yes_existing", !.response = <<>>])
     ELSE IF IsNo(req[r].response)
       THEN GotoWith(r, [req[r] EXCEPT !.pc = "no_update", !.response = <<>>])
     ELSE Finish(r, "error_unknown_response")
  /\ UNCHANGED <<db, sessions, sms, hist, now, mode, payments>>

ReplyGetInteraction(r) ==
  /\ At(r, "reply", "get_interaction")
  /\ IF Rows(req[r].lead, req[r].provider) = {}
       THEN Finish(r, "error_no_active_lead")
       ELSE IF IsYes(req[r].response)
         THEN GotoWith(r, [req[r] EXCEPT !.pc = "yes_existing", !.response = <<>>])
       ELSE IF IsNo(req[r].response)
         THEN GotoWith(r, [req[r] EXCEPT !.pc = "no_update", !.response = <<>>])
       ELSE Finish(r, "error_unknown_response")
  /\ UNCHANGED <<db, sessions, sms, hist, now, mode, payments>>

\* A decline that expires every interaction of the provider.
handleNoResponseGlobal(r) ==
  /\ At(r, "reply", "no_update")
  /\ lead_interactions' =
       {IF x.provider_id = req[r].provider THEN [x EXCEPT !.status = "EXPIRED"]
                                           ELSE x : x \in lead_interactions}
  /\ Finish(r, "declined")
  /\ UNCHANGED <<leads, nextId, provider_optouts, sessions, sms, hist, now, mode, payments>>

\* handleNoResponse
handleNoResponse(r) ==
  /\ At(r, "reply", "no_update")
  /\ lead_interactions' = updateInteractionStatus(req[r].lead, req[r].provider, "EXPIRED")
  /\ Finish(r, "declined")
  /\ UNCHANGED <<leads, nextId, provider_optouts, sessions, sms, hist, now, mode, payments>>

\* A lookup that never finds the stored link.
ExistingLinkNever(leadId, providerId) == {}

\* handleYesResponse: SELECT the unpaid payment link of the pair
ExistingLink(leadId, providerId) ==
  {x \in Rows(leadId, providerId) :
     /\ x.status \in {"PAYMENT_LINK_SENT", "AWAITING_PAYMENT"}
     /\ x.payment_link_url # NullUrl}

YesExisting(r) ==
  /\ At(r, "reply", "yes_existing")
  /\ LET existing == ExistingLink(req[r].lead, req[r].provider) IN
       IF existing # {}
         THEN GotoWith(r, [req[r] EXCEPT !.pc = "yes_resend_sms",
                        !.existing = (CHOOSE x \in existing : TRUE).payment_link_url])
         ELSE Goto(r, "yes_create_link")
  /\ UNCHANGED <<db, sessions, sms, hist, now, mode, payments>>

YesResendSms(r) ==
  /\ At(r, "reply", "yes_resend_sms")
  /\ sendSMS(r, providers[req[r].provider],
             ResendMessage(req[r].lead, req[r].existing), "yes_resend_status")
  /\ UNCHANGED <<db, sessions, hist, now, mode, payments>>

YesResendStatus(r) ==
  /\ At(r, "reply", "yes_resend_status")
  /\ lead_interactions' =
       updateInteractionStatus(req[r].lead, req[r].provider, "PAYMENT_LINK_SENT")
  /\ Finish(r, "resent_link")
  /\ UNCHANGED <<leads, nextId, provider_optouts, sessions, sms, hist, now, mode, payments>>

\* createPaymentLink: stripe.checkout.sessions.create succeeds ..
createPaymentLink(r) ==
  /\ At(r, "reply", "yes_create_link")
  /\ LET n == Cardinality(sessions) + 1 IN
       /\ sessions' = sessions \cup {Session(n, req[r].lead, req[r].provider)}
       /\ GotoWith(r, [req[r] EXCEPT !.pc = "yes_update", !.link = n])
  /\ UNCHANGED <<db, sms, hist, now, mode, payments>>

\* A handler that writes the new status before it calls the processor.
createPaymentLinkFailsAfterWrite(r) ==
  /\ At(r, "reply", "yes_create_link")
  /\ lead_interactions' =
       updateInteractionStatus(req[r].lead, req[r].provider, "PAYMENT_LINK_SENT")
  /\ Finish(r, "throw")
  /\ UNCHANGED <<leads, nextId, provider_optouts, sessions, sms, hist, now, mode, payments>>

\* .. or throws; the error propagates out of handleProviderResponse
createPaymentLinkFails(r) ==
  /\ At(r, "reply", "yes_create_link")
  /\ Finish(r, "throw")
  /\ UNCHANGED <<db, sessions, sms, hist, now, mode, payments>>

\* An UPDATE that sets the status and forgets the link columns.
YesUpdateStatusOnly(r) ==
  /\ At(r, "reply", "yes_update")
  /\ lead_interactions' =
       updateInteractionStatus(req[r].lead, req[r].provider, "PAYMENT_LINK_SENT")
  /\ Goto(r, "yes_send_sms")
  /\ UNCHANGED <<leads, nextId, provider_optouts, sessions, sms, hist, now, mode, payments>>

YesUpdate(r) ==
  /\ At(r, "reply", "yes_update")
  /\ lead_interactions' =
       UpdateRows(req[r].lead, req[r].provider,
                  LAMBDA x : [x EXCEPT !.status = "PAYMENT_LINK_SENT",
                                       !.payment_link_url = <<"url", req[r].link>>,
                                       !.checkout_session_id = req[r].link])
  /\ Goto(r, "yes_send_sms")
  /\ UNCHANGED <<leads, nextId, provider_optouts, sessions, sms, hist, now, mode, payments>>

YesSendSms(r) ==
  /\ At(r, "reply", "yes_send_sms")
  /\ sendSMSFinish(r, providers[req[r].provider],
                   PaymentLinkMessage(req[r].lead, <<"url", req[r].link>>),
                   "payment_link_sent")
  /\ UNCHANGED <<db, sessions, hist, now, mode, payments>>

\* ------------------------------------------------ POST /leads/stripe-webhook
\* An endpoint that goes on with the event when the signature does not verify.
constructEventUnchecked(ev) == TRUE

\* stripe.webhooks.constructEvent
constructEvent(ev) == ev.sig

\* A dispatch that looks at the tag only, not at the event type.
IsLeadPurchaseAnyType(ev) == ev.service_type = "lead_access"

\* event.type === 'checkout.session.completed' and
\* session.metadata?.service_type === 'lead_access'
IsLeadPurchase(ev) ==
  ev.type = "checkout.session.completed" /\ ev.service_type = "lead_access"

\* The route up to the first await of handleLeadPayment.
WebhookStart(r, ev) ==
  /\ CanStart(r)
  /\ LET obs == Arrived("webhook", ev.lead_id, ev.provider_id,
                        <<IF ev.sig THEN "signed" ELSE "unsigned", ev.type,
                          ev.service_type>>) IN
     IF ~constructEvent(ev)
       THEN BeginDone(r, obs, "400")
       ELSE IF \/ ~IsLeadPurchase(ev)
               \/ ev.lead_id = NULL \/ ev.provider_id = NULL
         THEN BeginDone(r, obs, "200")
         ELSE Begin(r, [Idle EXCEPT !.op = "webhook", !.pc = "set_paid",
                                    !.payment_intent = ev.payment_intent,
                                    !.lead = ev.lead_id,
                                    !.provider = ev.provider_id], obs)
  /\ verified' = IF /\ ev.sig /\ ev.type = "checkout.session.completed"
                      /\ ev.service_type = "lead_access"
                      /\ ev.lead_id \in LeadIds /\ ev.provider_id \in ProviderIds
                   THEN verified \cup {<<ev.lead_id, ev.provider_id>>}
                   ELSE verified
  /\ UNCHANGED <<db, sessions, reveals, now, mode, payments>>

WebhookVerified(r) ==
  \E s \in sessions : WebhookStart(r, CompletionEvent(s))

WebhookOther(r) ==
  \E ev \in OtherEvents \cup {ExpiredEvent(s) : s \in sessions} :
    WebhookStart(r, ev)

WebhookForged(r) ==
  \E ev \in ForgedEvents : WebhookStart(r, ev)

\* An event of a session minted elsewhere names a pair that has no
\* interaction here when it arrives.
WebhookForeign(r) ==
  \E ev \in ForeignEvents :
    /\ Rows(ev.lead_id, ev.provider_id) = {}
    /\ WebhookStart(r, ev)

\* handleLeadPayment: UPDATE .. SET status = 'PAID', unlocked_at, payment_intent_id
PaymentSetPaid(r) ==
  /\ At(r, "webhook", "set_paid")
  /\ lead_interactions' =
       UpdateRows(req[r].lead, req[r].provider,
                  LAMBDA x : [x EXCEPT !.status = "PAID", !.unlocked_at = now,
                                       !.payment_intent_id = req[r].payment_intent])
  /\ Goto(r, "load_records")
  /\ UNCHANGED <<leads, nextId, provider_optouts, sessions, sms, hist, now, mode, payments>>

\* SELECT the lead, SELECT the provider (rows of both tables are never
\* deleted or rewritten, so the two reads are one step), then the
\* !lead || !provider test
PaymentLoadRecords(r) ==
  /\ At(r, "webhook", "load_records")
  /\ IF req[r].lead \notin leads \/ req[r].provider \notin DOMAIN providers
       THEN Finish(r, "200")
       ELSE Goto(r, "reveal_sms")
  /\ UNCHANGED <<db, sessions, sms, hist, now, mode, payments>>

\* A reveal addressed to the phone of any provider.
RevealSmsAnyPhone(r) ==
  /\ At(r, "webhook", "reveal_sms")
  /\ \E p \in ProviderIds :
       sendSMS(r, providers[p], RevealMessage(req[r].lead), "reveal_status")
  /\ reveals' = IF \E s \in sessions : s.id = req[r].payment_intent
                  THEN [reveals EXCEPT ![req[r].payment_intent] = @ + 1]
                  ELSE reveals
  /\ UNCHANGED <<db, sessions, verified, started, now, mode, payments>>

\* sendRevealedDetails: the SMS ..
RevealSms(r) ==
  /\ At(r, "webhook", "reveal_sms")
  /\ sendSMS(r, providers[req[r].provider], RevealMessage(req[r].lead),
             "reveal_status")
  /\ reveals' = IF \E s \in sessions : s.id = req[r].payment_intent
                  THEN [reveals EXCEPT ![req[r].payment_intent] = @ + 1]
                  ELSE reveals
  /\ UNCHANGED <<db, sessions, verified, started, now, mode, payments>>

\* .. then status REVEAL_DETAILS_SENT
RevealStatus(r) ==
  /\ At(r, "webhook", "reveal_status")
  /\ lead_interactions' =
       updateInteractionStatus(req[r].lead, req[r].provider, "REVEAL_DETAILS_SENT")
  /\ Goto(r, "mark_done")
  /\ UNCHANGED <<leads, nextId, provider_optouts, sessions, sms, hist, now, mode, payments>>

\* A handler that returns after the reveal without the last status write.
PaymentMarkDoneSkipped(r) ==
  /\ At(r, "webhook", "mark_done")
  /\ Finish(r, "200")
  /\ UNCHANGED <<db, sessions, sms, hist, now, mode, payments>>

\* handleLeadPayment: mark as done
PaymentMarkDone(r) ==
  /\ At(r, "webhook", "mark_done")
  /\ lead_interactions' = updateInteractionStatus(req[r].lead, req[r].provider, "DONE")
  /\ Finish(r, "200")
  /\ UNCHANGED <<leads, nextId, provider_optouts, sessions, sms, hist, now, mode, payments>>

\* ------------------------------------------------------------------- next
DoCreateLead == \E l \in LeadIds : createLead(l)
DoCreateLeadDuplicate == \E r \in Req, l \in LeadIds : createLeadDuplicate(r, l)
DoTeaserStart == \E r \in Req, l \in LeadIds, p \in ProviderIds : TeaserStart(r, l, p)
DoTeaserCheck == \E r \in Req : TeaserCheck(r)
DoTeaserUpsert == \E r \in Req : TeaserUpsert(r)
DoTeaserSms == \E r \in Req : TeaserSms(r)
DoTeaserLastSent == \E r \in Req : TeaserLastSent(r)
DoReplyStart ==
  \* from a provider's phone or from "T0", a number of no provider
  \E r \in Req, ph \in {providers[p] : p \in ProviderIds} \cup {"T0"},
     m \in Messages, l \in LeadIds : ReplyStart(r, ph, m, l)
DoOptOut == \E r \in Req : handleOptOut(r)
DoReplyGetInteraction == \E r \in Req : ReplyGetInteraction(r)
DoNoResponse == \E r \in Req : handleNoResponse(r)
DoYesExisting == \E r \in Req : YesExisting(r)
DoYesResendSms == \E r \in Req : YesResendSms(r)
DoYesResendStatus == \E r \in Req : YesResendStatus(r)
DoCreatePaymentLink == \E r \in Req : createPaymentLink(r)
DoCreatePaymentLinkFails == \E r \in Req : createPaymentLinkFails(r)
DoYesUpdate == \E r \in Req : YesUpdate(r)
DoYesSendSms == \E r \in Req : YesSendSms(r)
DoWebhookVerified == \E r \in Req : WebhookVerified(r)
DoWebhookOther == \E r \in Req : WebhookOther(r)
DoWebhookForged == \E r \in Req : WebhookForged(r)
DoWebhookForeign == \E r \in Req : WebhookForeign(r)
DoPaymentSetPaid == \E r \in Req : PaymentSetPaid(r)
DoPaymentLoadRecords == \E r \in Req : PaymentLoadRecords(r)
DoRevealSms == \E r \in Req : RevealSms(r)
DoRevealStatus == \E r \in Req : RevealStatus(r)
DoPaymentMarkDone == \E r \in Req : PaymentMarkDone(r)

Step ==
  \/ DoTeaserCheck \/ DoTeaserUpsert \/ DoTeaserSms \/ DoTeaserLastSent
  \/ DoOptOut \/ DoReplyGetInteraction \/ DoNoResponse
  \/ DoYesExisting \/ DoYesResendSms \/ DoYesResendStatus
  \/ DoCreatePaymentLink \/ DoCreatePaymentLinkFails \/ DoYesUpdate \/ DoYesSendSms
  \/ DoPaymentSetPaid \/ DoPaymentLoadRecords
  \/ DoRevealSms \/ DoRevealStatus \/ DoPaymentMarkDone

Start ==
  \/ DoCreateLeadDuplicate \/ DoTeaserStart \/ DoReplyStart
  \/ DoWebhookVerified \/ DoWebhookOther \/ DoWebhookForged \/ DoWebhookForeign

Next == DoCreateLead \/ Start \/ Step

\* createLead called with every kind of original_notes
InitNotes ==
  /\ build = "stripe.js"
  /\ InitPayments
  /\ leads = {}
  /\ lead_interactions = {}
  /\ nextId = 1
  /\ provider_optouts = {}
  /\ sessions = {}
  /\ sms = NoSms
  /\ reveals = [i \in PaymentIntents |-> 0]
  /\ verified = {}
  /\ started = 0
  /\ now = Daytime
  /\ req = [r \in Req |-> Idle]
  /\ last \in {[NoLast EXCEPT !.arg = notes] : notes \in NotesInputs}
  /\ mode = "notes"

\* createLead: notes_snippet = stripPIIFromNotes(original_notes), then the
\* INSERT stores it with the lead
createLeadWithNotes ==
  /\ last.op = "none"
  /\ "L1" \notin leads
  /\ leads' = leads \cup {"L1"}
  /\ last' = [last EXCEPT !.op = "createLead", !.lead = "L1",
                          !.result = stripPIIFromNotes(last.arg)]
  /\ UNCHANGED <<lead_interactions, nextId, provider_optouts, sessions, sms,
                 hist, now, req, mode, payments>>

NextNotes == createLeadWithNotes

SpecNotes == InitNotes /\ [][NextNotes]_vars

\* POST /leads for a lead in Miami, with every providers table and every
\* provider_ids argument
InitMatch ==
  /\ build = "stripe.js"
  /\ InitPayments
  /\ leads = {}
  /\ lead_interactions = {}
  /\ nextId = 1
  /\ provider_optouts = {}
  /\ sessions = {}
  /\ sms = NoSms
  /\ reveals = [i \in PaymentIntents |-> 0]
  /\ verified = {}
  /\ started = 0
  /\ now = Daytime
  /\ req = [r \in Req |-> Idle]
  /\ last \in {[NoLast EXCEPT !.arg = [table |-> t, city |-> "Miami", ids |-> ids]] :
                 t \in [ProviderIds -> ProviderRows], ids \in SUBSET ProviderIds}
  /\ mode = "match"

\* POST /leads: createLead, then providersToNotify = getMatchingProviders(..)
PostLeadsMatch ==
  /\ last.op = "none"
  /\ "L1" \notin leads
  /\ leads' = leads \cup {"L1"}
  /\ last' = [last EXCEPT !.op = "getMatchingProviders", !.lead = "L1",
                          !.result = getMatchingProviders(last.arg.table, last.arg.city,
                                                          last.arg.ids)]
  /\ UNCHANGED <<lead_interactions, nextId, provider_optouts, sessions, sms,
                 hist, now, req, mode, payments>>

NextMatch == PostLeadsMatch

SpecMatch == InitMatch /\ [][NextMatch]_vars

\* ------------------------------------------- payments webhook, daily transfers
\* The payments subsystem on its own, in each of the three versions.
InitJobs ==
  /\ build \in {"stripe.js", "part_007", "part_008"}
  /\ InitPayments
  /\ leads = {}
  /\ lead_interactions = {}
  /\ nextId = 1
  /\ provider_optouts = {}
  /\ sessions = {}
  /\ sms = NoSms
  /\ reveals = [i \in PaymentIntents |-> 0]
  /\ verified = {}
  /\ started = 0
  /\ now = Daytime
  /\ req = [r \in Req |-> Idle]
  /\ last = NoLast
  /\ mode = "jobs"

\* POST /stripe-webhook: the answer and what is left in the jobs table;
\* handleCheckoutCompleted has one statement that writes, the upsert
handleStripeWebhook(ev) ==
  /\ started < MaxJobOps
  /\ LET out ==
        IF ~ev.sig /\ (VerifiesStrictly(build) \/ ev.body = "unparsable")
          THEN [result |-> "400", jobs |-> jobs]
        ELSE IF ~ev.sig /\ ev.body = "buffer"
          \* event = req.body, a Buffer: event.type is undefined, the default case
          THEN [result |-> "200", jobs |-> jobs]
        ELSE IF ev.type # "checkout.session.completed" \/ ev.provider_id = NULL
          THEN [result |-> "200", jobs |-> jobs]
        ELSE IF UpsertCallBindsJob(build)
          THEN [result |-> "200", jobs |-> upsertJob(ev.id, ev.provider_id, "paid")]
        ELSE [result |-> "500", jobs |-> jobs]
     IN /\ jobs' = out.jobs
        /\ last' = [NoLast EXCEPT !.op = "stripe_webhook",
                                  !.arg = <<IF ev.sig THEN "signed" ELSE "unsigned",
                                            ev.type>>,
                                  !.result = out.result]
  /\ started' = started + 1
  /\ UNCHANGED <<db, sessions, sms, reveals, verified, now, req, mode, build,
                 transfers, runs>>

\* runDailyTransfers(date): listPaidJobsForDate, the early return, the totals
RunStart(k, date) ==
  /\ started < MaxJobOps
  /\ runs[k].pc = "idle"
  /\ \A q \in Runs : q < k => runs[q].pc # "idle"
  /\ LET listed == listPaidJobsForDate(date)
         keys == IF TotalsKeyedByProvider(build)
                   THEN {j.provider_id : j \in listed} ELSE {"undefined"} IN
       runs' = IF listed = {} THEN runs
               ELSE [runs EXCEPT ![k] = [IdleRun EXCEPT !.pc = "transfer",
                                                        !.date = date,
                                                        !.listed = listed,
                                                        !.todo = keys]]
  /\ started' = started + 1
  /\ UNCHANGED <<db, sessions, sms, reveals, verified, now, req, mode, last,
                 build, jobs, transfers>>

\* the provider is done with: next entry of totals, or the end of the run
NextProvider(k, p) ==
  IF runs[k].todo \ {p} = {}
    THEN [runs EXCEPT ![k] = IdleRun]
    ELSE [runs EXCEPT ![k].pc = "transfer", ![k].todo = @ \ {p},
                      ![k].cur = NULL, ![k].transfer = NoTransfer]

\* for one entry of totals: getProviderById, ensureConnectAccount (reads of
\* the providers table), then stripe.transfers.create for the listed jobs of
\* the provider; a key that is no provider id is skipped with `continue`
RunTransfer(k) ==
  /\ runs[k].pc = "transfer"
  /\ \E p \in runs[k].todo :
       IF p \notin ProviderIds
         THEN /\ runs' = NextProvider(k, p)
              /\ transfers' = transfers
         ELSE LET n == Cardinality(transfers) + 1 IN
              /\ transfers' = transfers \cup
                   {[id |-> n, provider_id |-> p, date |-> runs[k].date,
                     jobs |-> {j.id : j \in {x \in runs[k].listed : x.provider_id = p}}]}
              /\ runs' = [runs EXCEPT ![k].pc = "mark", ![k].cur = p,
                                       ![k].transfer = n]
  /\ UNCHANGED <<db, sessions, sms, hist, now, req, mode, last, build, jobs>>

\* ensureConnectAccount or stripe.transfers.create throws: the catch inside
\* the loop logs and goes on with the next provider
RunTransferFails(k) ==
  /\ runs[k].pc = "transfer"
  /\ \E p \in runs[k].todo \cap ProviderIds : runs' = NextProvider(k, p)
  /\ UNCHANGED <<db, sessions, sms, hist, now, req, mode, last, build, jobs,
                 transfers>>

\* markJobsTransferred(providerId, date, transfer.id)
RunMark(k) ==
  /\ runs[k].pc = "mark"
  /\ jobs' = markJobsTransferred(runs[k].cur, runs[k].date, runs[k].transfer)
  /\ runs' = NextProvider(k, runs[k].cur)
  /\ UNCHANGED <<db, sessions, sms, hist, now, req, mode, last, build, transfers>>

NextJobs ==
  \/ \E ev \in JobEvents : handleStripeWebhook(ev)
  \/ \E k \in Runs, d \in {"D1", "D2"} : RunStart(k, d)
  \/ \E k \in Runs : RunTransfer(k)
  \/ \E k \in Runs : RunTransferFails(k)
  \/ \E k \in Runs : RunMark(k)

\* webhook deliveries and transfer runs in any interleaving
SpecJobs == InitJobs /\ [][NextJobs]_vars

\* isQuietHours(timezone) evaluated at the current wall-clock time
QuietHoursCheck ==
  /\ last.op = "none"
  /\ last' = [NoLast EXCEPT !.op = "isQuietHours",
                            !.result = IF isQuietHours(now) THEN "quiet"
                                                            ELSE "not_quiet"]
  /\ UNCHANGED <<db, sessions, sms, hist, now, req, mode, payments>>

NextQuiet == QuietHoursCheck

SpecQuiet == InitQuiet /\ [][NextQuiet]_vars

\* requests one at a time
Spec == Init /\ [][Next]_vars

\* a "Y" and the payment webhook of the same pair, overlapping
SpecRace == InitRace /\ [][Next]_vars

\* Wall-clock time passes between two requests: a day and an hour, which is
\* past the ttl_hours of every interaction that exists.
Tick ==
  /\ AllIdle
  /\ now < MaxDays * 24 * 60
  /\ now' = now + TtlHours * 60 + 60
  /\ UNCHANGED <<db, sessions, sms, hist, req, mode, last, payments>>

NextClock == Next \/ Tick

\* requests one at a time, over more than a day
SpecClock == InitClock /\ [][NextClock]_vars

\* overlapping requests
SpecConc == InitConc /\ [][Next]_vars

\* The steps of the handler in slot r.
Handler(r) ==
  \/ TeaserCheck(r) \/ TeaserUpsert(r) \/ TeaserSms(r) \/ TeaserLastSent(r)
  \/ handleOptOut(r) \/ ReplyGetInteraction(r) \/ handleNoResponse(r)
  \/ YesExisting(r) \/ YesResendSms(r) \/ YesResendStatus(r)
  \/ createPaymentLink(r) \/ createPaymentLinkFails(r) \/ YesUpdate(r)
  \/ YesSendSms(r)
  \/ PaymentSetPaid(r) \/ PaymentLoadRecords(r)
  \/ RevealSms(r) \/ RevealStatus(r) \/ PaymentMarkDone(r)

\* Every await of a handler resolves: the event loop resumes the handler.
SpecLive == InitLive /\ [][Next]_vars /\ \A r \in Req : WF_vars(Handler(r))

\* ================================================================= claims
Pairs == LeadIds \X ProviderIds

StatusOf(table, leadId, providerId) ==
  {x.status : x \in {y \in table : y.lead_id = leadId /\ y.provider_id = providerId}}

HasUnpaidLink(leadId, providerId) ==
  \E x \in lead_interactions :
    /\ x.lead_id = leadId /\ x.provider_id = providerId
    /\ x.status \in {"PAYMENT_LINK_SENT", "AWAITING_PAYMENT"}
    /\ x.payment_link_url # NullUrl

Stepped(r) == req'[r] # req[r]

\* C1: a text with a private attribute of lead L (client name, phone, email,
\* exact address, original notes) goes to provider P only after an authentic
\* payment-completion event carrying (L, P) was received, and teaser,
\* payment-link and resend texts carry no private attribute.
C1_PrivateOnlyAfterVerifiedPayment ==
  /\ sms.attrs \cap PrivateAttrs # {} =>
       \E p \in ProviderIds :
         providers[p] = sms.to /\ <<sms.lead_id, p>> \in verified
  /\ sms.kind \in {"teaser", "payment_link", "resend"} =>
       sms.attrs \cap PrivateAttrs = {}

C1_Witness ==
  /\ sms.kind = "reveal"
  /\ sms.attrs \cap PrivateAttrs # {}
  /\ \E p \in ProviderIds : providers[p] = sms.to /\ <<sms.lead_id, p>> \in verified

\* C2: two concurrent "Y" replies for the same (lead, provider) never both
\* mint a checkout session.
C2_ConcurrentYesMintOnce ==
  \A a, b \in Req :
    (/\ a # b
     /\ req[a].op = "reply" /\ req[b].op = "reply"
     /\ req[a].lead = req[b].lead /\ req[a].provider = req[b].provider)
    => ~(req[a].link # NoSession /\ req[b].link # NoSession)

\* C3: every step of a "Y" reply handled for a pair that has an unpaid payment
\* link leaves the interaction rows and the minted sessions as they were, the
\* only text it sends is the resend of the stored URL, and it ends as
\* resent_link after one SMS.
C3_ResendSameLink ==
  [][\A r \in Req :
       (/\ req[r].op = "reply"
        /\ req[r].link = NoSession
        /\ \/ IsYes(req[r].response)
           \/ req[r].pc \in {"yes_existing", "yes_resend_sms",
                             "yes_resend_status", "yes_create_link"}
        /\ HasUnpaidLink(req[r].lead, req[r].provider)
        /\ Stepped(r))
       => /\ lead_interactions' = lead_interactions
          /\ sessions' = sessions
          /\ req'[r].link = NoSession
          /\ sms' # sms =>
               \E x \in Rows(req[r].lead, req[r].provider) :
                 sms' = Sms(providers[req[r].provider],
                            ResendMessage(req[r].lead, x.payment_link_url))
          /\ req'[r].op = "idle" =>
               last'.result = "resent_link" /\ last'.sent = 1]_vars

C3_Witness ==
  /\ last.op = "reply" /\ last.result = "resent_link" /\ last.sent = 1
  /\ sms.kind = "resend"
  /\ \E x \in Rows(last.lead, last.provider) :
       x.status = "PAYMENT_LINK_SENT" /\ x.payment_link_url = sms.url

\* C4: the completion webhook of one payment intent reveals the details once;
\* a second delivery sends no further reveal SMS.
C4_RevealOncePerPayment ==
  \A i \in PaymentIntents : reveals[i] <= 1

\* C5: there is at most one interaction row for every (lead, provider) pair.
C5_OneRowPerPair ==
  \A pair \in Pairs : Cardinality(Rows(pair[1], pair[2])) <= 1

C5_Witness ==
  \E a, b \in Req :
    /\ a # b
    /\ req[a].op = "teaser" /\ req[b].op = "teaser"
    /\ req[a].lead = req[b].lead /\ req[a].provider = req[b].provider
    /\ req[a].pc \in {"send_sms", "last_sent"}
    /\ req[b].pc \in {"send_sms", "last_sent"}
    /\ Cardinality(Rows(req[a].lead, req[a].provider)) = 1

Rank(status) ==
  CASE status = "NEW_LEAD" -> 0
    [] status = "TEASER_SENT" -> 1
    [] status = "AWAIT_CONFIRM" -> 2
    [] status = "PAYMENT_LINK_SENT" -> 3
    [] status = "AWAITING_PAYMENT" -> 4
    [] status = "PAID" -> 5
    [] status = "REVEAL_DETAILS_SENT" -> 6
    [] status = "DONE" -> 7
    [] OTHER -> 8

\* C6: no step moves the status of an interaction backward in the order
\* NEW_LEAD, TEASER_SENT, AWAIT_CONFIRM, PAYMENT_LINK_SENT, AWAITING_PAYMENT,
\* PAID, REVEAL_DETAILS_SENT, DONE (EXPIRED and OPTED_OUT being exits).
C6_StatusNeverBackward ==
  [][\A pair \in Pairs :
       \A old \in StatusOf(lead_interactions, pair[1], pair[2]) :
         \A new \in StatusOf(lead_interactions', pair[1], pair[2]) :
           Rank(new) >= Rank(old)]_vars

\* C7: once the status of an interaction is DONE, EXPIRED or OPTED_OUT, no
\* step changes it.
C7_TerminalStays ==
  [][\A pair \in Pairs :
       \A old \in StatusOf(lead_interactions, pair[1], pair[2]) :
         old \in {"DONE", "EXPIRED", "OPTED_OUT"} =>
           StatusOf(lead_interactions', pair[1], pair[2]) = {old}]_vars

\* C8: a completion webhook that arrives for a pair in PAYMENT_LINK_SENT or
\* AWAITING_PAYMENT sets PAID together with the unlock time and the payment
\* intent, then sends the reveal SMS while the status is PAID, then sets
\* REVEAL_DETAILS_SENT, then DONE, and the handler does end with the
\* interaction in DONE.
C8_PaidRevealDone ==
  /\ [][\A r \in Req :
          (/\ req[r].op = "webhook" /\ Stepped(r)
           /\ last.pre \in {{"PAYMENT_LINK_SENT"}, {"AWAITING_PAYMENT"}}) =>
            LET l == req[r].lead
                p == req[r].provider
                before == StatusOf(lead_interactions, l, p)
                after == {x \in lead_interactions' :
                            x.lead_id = l /\ x.provider_id = p} IN
            /\ (req[r].pc = "set_paid"
                /\ before \subseteq {"PAYMENT_LINK_SENT", "AWAITING_PAYMENT"}) =>
                 /\ after # {}
                 /\ \A x \in after :
                      /\ x.status = "PAID"
                      /\ x.unlocked_at = now
                      /\ x.payment_intent_id = req[r].payment_intent
                 /\ req'[r].pc = "load_records"
            /\ req[r].pc = "load_records" =>
                 before = {"PAID"} /\ req'[r].pc = "reveal_sms"
            /\ req[r].pc = "reveal_sms" =>
                 /\ before = {"PAID"}
                 /\ sms' = Sms(providers[p], RevealMessage(l))
                 /\ lead_interactions' = lead_interactions
                 /\ req'[r].pc = "reveal_status"
            /\ req[r].pc = "reveal_status" =>
                 /\ before = {"PAID"}
                 /\ \A x \in after : x.status = "REVEAL_DETAILS_SENT"
                 /\ req'[r].pc = "mark_done"
            /\ req[r].pc = "mark_done" =>
                 /\ before = {"REVEAL_DETAILS_SENT"}
                 /\ \A x \in after : x.status = "DONE"
                 /\ req'[r].op = "idle"]_vars
  /\ \A pair \in Pairs :
       (\E r \in Req :
          /\ At(r, "webhook", "set_paid")
          /\ req[r].lead = pair[1] /\ req[r].provider = pair[2]
          /\ StatusOf(lead_interactions, pair[1], pair[2]) \in
               {{"PAYMENT_LINK_SENT"}, {"AWAITING_PAYMENT"}})
       ~> (AllIdle /\ StatusOf(lead_interactions, pair[1], pair[2]) = {"DONE"})

C8_Witness ==
  /\ last.op = "webhook" /\ last.result = "200" /\ last.sent = 1
  /\ sms.kind = "reveal"
  /\ \E x \in Rows(last.lead, last.provider) :
       x.status = "DONE" /\ x.unlocked_at # NullTime /\ x.payment_intent_id # 0

\* C9: once a provider has an opt-out record, no checkout session is minted
\* for that provider and no interaction of that provider moves to
\* PAYMENT_LINK_SENT.
C9_OptedOutNotAdvanced ==
  [][\A p \in provider_optouts :
       /\ {s \in sessions' : s.provider_id = p} = {s \in sessions : s.provider_id = p}
       /\ \A l \in LeadIds :
            "PAYMENT_LINK_SENT" \in StatusOf(lead_interactions', l, p) =>
              "PAYMENT_LINK_SENT" \in StatusOf(lead_interactions, l, p)]_vars

\* C10: a teaser dispatch to a provider that has an opt-out record returns
\* skipped(opted_out) without sending an SMS and without creating or changing
\* an interaction row, and no step removes an opt-out record.
C10_OptOutPermanent ==
  /\ [](/\ (last.op = "teaser" /\ last.provider \in provider_optouts) =>
             sms = NoSms /\ last.sent = 0
        /\ (/\ last.op = "teaser" /\ last.provider \in provider_optouts
            /\ last.result # "pending") => last.result = "skipped_opted_out")
  /\ [][/\ provider_optouts \subseteq provider_optouts'
        /\ \A r \in Req :
             (/\ req[r].op = "teaser"
              /\ req[r].provider \in provider_optouts
              /\ Stepped(r))
             => /\ lead_interactions' = lead_interactions
                /\ sms' = sms
                /\ req'[r] = Idle]_vars

C10_Witness ==
  /\ last.op = "teaser" /\ last.result = "skipped_opted_out"
  /\ last.provider \in provider_optouts
  /\ Rows(last.lead, last.provider) = {}
  /\ \E x \in lead_interactions : x.provider_id = last.provider

Terminal == {"DONE", "EXPIRED", "OPTED_OUT"}

\* C11: the STOP reply of a provider leaves every interaction of that provider
\* in a terminal status: the ones that were not terminal are moved to
\* OPTED_OUT.
C11_StopMovesToOptedOut ==
  [][\A r \in Req :
       (At(r, "reply", "optout") /\ Stepped(r)) =>
         \A x \in lead_interactions' :
           x.provider_id = req[r].provider =>
             x.status = (IF \E y \in lead_interactions :
                               y.id = x.id /\ y.status \in Terminal
                           THEN (CHOOSE y \in lead_interactions : y.id = x.id).status
                           ELSE "OPTED_OUT")]_vars

\* C12: a STOP from a provider that already has an opt-out record ends as
\* opted_out (no error) and leaves the opt-out records and every interaction
\* row as they were; nothing is sent.
C12_StopIdempotent ==
  [][\A r \in Req :
       (/\ At(r, "reply", "optout")
        /\ req[r].provider \in provider_optouts
        /\ Stepped(r))
       => /\ provider_optouts' = provider_optouts
          /\ lead_interactions' = lead_interactions
          /\ sms' = sms
          /\ req'[r] = Idle
          /\ last'.result = "opted_out"]_vars

C12_Witness ==
  /\ last.op = "reply" /\ last.arg = <<"S", "T", "O", "P">>
  /\ last.opted
  /\ last.result = "opted_out"
  /\ last.provider \in provider_optouts

\* C13: every step of a teaser dispatch for a provider without an opt-out
\* record, taken at a time inside the quiet-hours window (21:30 to 08:00),
\* ends the dispatch as queued(quiet_hours), sends no SMS and leaves the
\* interaction rows as they were.
C13_QuietHoursDefers ==
  [][\A r \in Req :
       (/\ req[r].op = "teaser"
        /\ req[r].provider \notin provider_optouts
        /\ InQuietWindow(now)
        /\ Stepped(r))
       => /\ lead_interactions' = lead_interactions
          /\ sms' = sms
          /\ req'[r] = Idle
          /\ last'.result = "queued_quiet_hours"]_vars

\* C14: at every minute of the day the quiet-hours test answers quiet exactly
\* when the time is at or after 21:30 or before 08:00.
C14_QuietExactlyInWindow ==
  last.op = "isQuietHours" => (last.result = "quiet" <=> InQuietWindow(now))

\* C15: a "Y" reply handled past the ttl_expires_at of an interaction that
\* holds an unpaid payment link does not resend the stored link: it goes on
\* to issue a new one.
C15_StaleLinkReissued ==
  [][\A r \in Req :
       (/\ At(r, "reply", "yes_existing")
        /\ Stepped(r)
        /\ \E x \in Rows(req[r].lead, req[r].provider) :
             /\ x.status \in {"PAYMENT_LINK_SENT", "AWAITING_PAYMENT"}
             /\ x.payment_link_url # NullUrl
             /\ now > x.ttl_expires_at)
       => req'[r].pc = "yes_create_link"]_vars

SignedLeadPurchase == <<"signed", "checkout.session.completed", "lead_access">>

\* C17: a signed lead-access completion event whose metadata lacks lead_id or
\* provider_id is answered with success at once, without a write or an SMS;
\* and every step of the handling of one that names a pair without an
\* interaction row leaves the lead and interaction rows as they were, sends
\* no SMS, and the handling ends with the success acknowledgement.
C17_UnknownWebhookNoOp ==
  [][/\ (/\ started' = started + 1
         /\ last'.op = "webhook" /\ last'.arg = SignedLeadPurchase
         /\ (last'.lead = NULL \/ last'.provider = NULL))
        => /\ db' = db /\ sms' = NoSms /\ req' = req
           /\ last'.result = "200"
     /\ \A r \in Req :
          (/\ req[r].op = "webhook"
           /\ Rows(req[r].lead, req[r].provider) = {}
           /\ Stepped(r))
          => /\ lead_interactions' = lead_interactions
             /\ leads' = leads
             /\ sms' = sms
             /\ req'[r].op = "idle" => last'.result = "200"]_vars

\* C18: a signed lead-access completion event that names a lead or a provider
\* without a record ends in an error for the caller, not in the success
\* acknowledgement; no reveal SMS is sent and no interaction becomes DONE.
C18_MissingRecordSurfaced ==
  (/\ last.op = "webhook" /\ last.arg = SignedLeadPurchase
   /\ last.lead # NULL /\ last.provider # NULL
   /\ (last.lead \notin leads \/ last.provider \notin DOMAIN providers)
   /\ last.result # "pending")
  => /\ last.result # "200"
     /\ sms = NoSms
     /\ "DONE" \notin StatusOf(lead_interactions, last.lead, last.provider)

\* C19: a lead-webhook request whose signature does not verify is answered
\* with the error response at once: no table is written, no handler is
\* started for it and no SMS is sent.
C19_BadSignatureRejected ==
  [][(/\ started' = started + 1
      /\ last'.op = "webhook"
      /\ last'.arg[1] = "unsigned")
     => /\ db' = db
        /\ req' = req
        /\ sms' = NoSms
        /\ reveals' = reveals
        /\ last'.result = "400"]_vars

C19_Witness ==
  /\ last.op = "webhook" /\ last.arg[1] = "unsigned"
  /\ last.result = "400"
  /\ last.pre = {"PAYMENT_LINK_SENT"}
  /\ \A x \in Rows(last.lead, last.provider) :
       x.status = "PAYMENT_LINK_SENT" /\ x.unlocked_at = NullTime
  /\ sms = NoSms

\* C20: a signed lead-webhook event that is not a checkout completion, or is
\* a completion without the lead_access tag, is acknowledged with success at
\* once: no lead, interaction or opt-out is written, no handler is started
\* and no SMS is sent.
C20_OtherEventsIgnored ==
  [][(/\ started' = started + 1
      /\ last'.op = "webhook"
      /\ last'.arg[1] = "signed"
      /\ (last'.arg[2] # "checkout.session.completed"
          \/ last'.arg[3] # "lead_access"))
     => /\ db' = db
        /\ req' = req
        /\ sms' = NoSms
        /\ last'.result = "200"]_vars

C20_Witness ==
  /\ last.op = "webhook"
  /\ last.arg = <<"signed", "checkout.session.expired", "lead_access">>
  /\ last.result = "200"
  /\ last.pre = {"PAYMENT_LINK_SENT"}
  /\ StatusOf(lead_interactions, last.lead, last.provider) = {"PAYMENT_LINK_SENT"}
  /\ sms = NoSms

\* C21: a "Y" / "YES" reply (any case, surrounding blanks ignored) that
\* arrives for a pair in TEASER_SENT finds no link to resend, mints one
\* checkout session (unless the processor call fails, C16), stores the URL
\* and the id of that session on the one row of the pair together with
\* PAYMENT_LINK_SENT, and then sends that URL to the provider's phone.
C21_YesMintsOneLink ==
  [][\A r \in Req :
       (/\ req[r].op = "reply" /\ Stepped(r)
        /\ IsYes(last.arg) /\ last.pre = {"TEASER_SENT"}) =>
         LET l == req[r].lead
             p == req[r].provider
             after == {x \in lead_interactions' :
                         x.lead_id = l /\ x.provider_id = p} IN
         /\ req[r].pc = "get_interaction" =>
              req'[r].pc = "yes_existing" /\ sessions' = sessions
         /\ req[r].pc = "yes_existing" =>
              req'[r].pc = "yes_create_link" /\ sessions' = sessions
         /\ req[r].pc = "yes_create_link" =>
              \/ last'.result = "throw" /\ sessions' = sessions
              \/ /\ sessions \subseteq sessions'
                 /\ Cardinality(sessions') = Cardinality(sessions) + 1
                 /\ \A s \in sessions' \ sessions :
                      /\ s.id = req'[r].link
                      /\ s.lead_id = l /\ s.provider_id = p
                 /\ req'[r].pc = "yes_update"
         /\ req[r].pc = "yes_update" =>
              /\ sessions' = sessions
              /\ Cardinality(after) = 1
              /\ \A x \in after :
                   /\ x.status = "PAYMENT_LINK_SENT"
                   /\ \E s \in sessions :
                        /\ s.id = req[r].link
                        /\ x.payment_link_url = s.url
                        /\ x.checkout_session_id = s.id
              /\ req'[r].pc = "yes_send_sms"
         /\ req[r].pc = "yes_send_sms" =>
              /\ sessions' = sessions
              /\ lead_interactions' = lead_interactions
              /\ \A x \in after :
                   sms' = Sms(providers[p], PaymentLinkMessage(l, x.payment_link_url))
              /\ last'.result = "payment_link_sent" /\ last'.sent = 1]_vars

C21_Witness ==
  /\ last.op = "reply" /\ last.arg = <<"Y", "E", "S">>
  /\ last.pre = {"TEASER_SENT"}
  /\ last.result = "payment_link_sent"
  /\ sms.kind = "payment_link"
  /\ Cardinality(sessions) = 1
  /\ \E x \in Rows(last.lead, last.provider) : \E s \in sessions :
       /\ x.status = "PAYMENT_LINK_SENT"
       /\ x.payment_link_url = s.url /\ sms.url = s.url
       /\ x.checkout_session_id = s.id

\* C22: the "N" / "NO" reply of provider P for lead L, (L, P) being in
\* TEASER_SENT, sets the status of that interaction to EXPIRED and changes
\* nothing else: no other row, no opt-out record, no session, no SMS; and a
\* teaser of another lead dispatched to P afterwards (P not opted out,
\* outside quiet hours) is sent.
C22_NoExpiresOnlyThatPair ==
  /\ [][\A r \in Req :
          (/\ At(r, "reply", "no_update") /\ Stepped(r)
           /\ last.pre = {"TEASER_SENT"}) =>
            /\ lead_interactions' =
                 {IF x.lead_id = req[r].lead /\ x.provider_id = req[r].provider
                    THEN [x EXCEPT !.status = "EXPIRED"] ELSE x :
                    x \in lead_interactions}
            /\ provider_optouts' = provider_optouts
            /\ leads' = leads
            /\ sessions' = sessions
            /\ sms' = sms
            /\ last'.result = "declined"]_vars
  /\ []((/\ last.op = "teaser" /\ last.result # "pending"
         /\ ~last.opted /\ ~InQuietWindow(now)
         /\ \E x \in lead_interactions :
              /\ x.provider_id = last.provider /\ x.lead_id # last.lead
              /\ x.status = "EXPIRED")
        => /\ last.result = "sent"
           /\ sms = Sms(providers[last.provider], createTeaserMessage(last.lead))
           /\ StatusOf(lead_interactions, last.lead, last.provider) = {"TEASER_SENT"})

C22_Witness ==
  /\ last.op = "teaser" /\ last.result = "sent"
  /\ last.provider \notin provider_optouts
  /\ \E x \in lead_interactions :
       /\ x.provider_id = last.provider /\ x.lead_id # last.lead
       /\ x.status = "EXPIRED"
  /\ \E x \in lead_interactions :
       x.provider_id # last.provider /\ x.status = "TEASER_SENT"

Recognized ==
  {<<"S", "T", "O", "P">>, <<"Y">>, <<"Y", "E", "S">>, <<"N">>, <<"N", "O">>}

\* C23: a reply whose normalised text is none of STOP, Y, YES, N, NO writes
\* no table, mints no session and sends no SMS, and its result is an error:
\* the unknown-response error when the provider and the interaction of the
\* pair are found (the lookups come first: unknown provider, no active
\* lead).
C23_UnknownReplyNoChange ==
  [][/\ (/\ started' = started + 1
         /\ last'.op = "reply" /\ last'.arg \notin Recognized)
        => /\ db' = db /\ sessions' = sessions /\ sms' = NoSms
           /\ last'.provider = NULL =>
                req' = req /\ last'.result = "error_unknown_provider"
     /\ \A r \in Req :
          (/\ req[r].op = "reply" /\ Stepped(r)
           /\ last.arg \notin Recognized)
          => /\ db' = db /\ sessions' = sessions /\ sms' = sms
             /\ req'[r] = Idle
             /\ last'.result = IF last.pre = {} THEN "error_no_active_lead"
                                               ELSE "error_unknown_response"]_vars

\* C23 as stated: every reply with an unrecognised text is reported as the
\* unknown-response error, whoever sent it and whatever lead it names.
C23_AlwaysUnknownResponse ==
  (/\ last.op = "reply" /\ last.arg \notin Recognized
   /\ last.result # "pending") => last.result = "error_unknown_response"

C23_Witness ==
  /\ last.op = "reply" /\ last.arg = <<"O", "K">>
  /\ last.pre = {"TEASER_SENT"}
  /\ last.result = "error_unknown_response"
  /\ StatusOf(lead_interactions, last.lead, last.provider) = {"TEASER_SENT"}
  /\ sms = NoSms /\ sessions = {}

\* C24: after a teaser dispatch that was sent, the pair has exactly one
\* interaction, in TEASER_SENT, with a send timestamp and a ttl_expires_at
\* that is the time of that dispatch plus the configured TTL hours, also
\* when the dispatch repeats one made earlier.
C24_TeaserStampsTtl ==
  (last.op = "teaser" /\ last.result = "sent") =>
    /\ Cardinality(Rows(last.lead, last.provider)) = 1
    /\ \A x \in Rows(last.lead, last.provider) :
         /\ x.status = "TEASER_SENT"
         /\ x.last_sent_at # NullTime
         /\ x.ttl_expires_at = x.last_sent_at + TtlHours * 60

\* C25: every minted session carries the lead-access tag and the pair it
\* was minted for, the pair whose row stores its id; its signed completion
\* event passes the webhook's tests, starts handleLeadPayment for that pair,
\* and the payment is written to the row of that pair and to no other row.
C25_SessionCarriesPair ==
  /\ [](\A s \in sessions :
          /\ s.service_type = "lead_access"
          /\ constructEvent(CompletionEvent(s)) /\ IsLeadPurchase(CompletionEvent(s))
          /\ \A x \in lead_interactions :
               x.checkout_session_id = s.id =>
                 x.lead_id = s.lead_id /\ x.provider_id = s.provider_id)
  /\ [][/\ \A r \in Req :
            (At(r, "reply", "yes_create_link") /\ Stepped(r)) =>
              \A s \in sessions' \ sessions :
                /\ s.lead_id = req[r].lead /\ s.provider_id = req[r].provider
                /\ s.service_type = "lead_access"
        /\ (/\ started' = started + 1
            /\ last'.op = "webhook" /\ last'.arg = SignedLeadPurchase
            /\ last'.pre # {})
           => \E r \in Req : \E s \in sessions :
                /\ At(r, "idle", "idle")
                /\ req'[r].op = "webhook" /\ req'[r].pc = "set_paid"
                /\ req'[r].payment_intent = s.id
                /\ req'[r].lead = s.lead_id /\ req'[r].provider = s.provider_id
        /\ \A r \in Req :
            (/\ At(r, "webhook", "set_paid") /\ Stepped(r)
             /\ \E s \in sessions : s.id = req[r].payment_intent) =>
              \A s \in sessions : s.id = req[r].payment_intent =>
                /\ \A x \in lead_interactions :
                     (x.lead_id # s.lead_id \/ x.provider_id # s.provider_id)
                       => x \in lead_interactions'
                /\ \A x \in lead_interactions' :
                     (x.lead_id = s.lead_id /\ x.provider_id = s.provider_id)
                       => /\ x.status = "PAID"
                          /\ x.payment_intent_id = s.id
                          /\ x.checkout_session_id # NoSession
                /\ \E x \in lead_interactions' :
                     x.lead_id = s.lead_id /\ x.provider_id = s.provider_id]_vars

C25_Witness ==
  /\ last.op = "webhook" /\ last.result = "200"
  /\ \E s \in sessions : \E x \in lead_interactions :
       /\ x.lead_id = "L2" /\ s.lead_id = "L2" /\ x.provider_id = s.provider_id
       /\ x.checkout_session_id = s.id /\ x.payment_intent_id = s.id
       /\ x.status = "DONE"
  /\ \E y \in lead_interactions : y.lead_id = "L1" /\ y.status = "TEASER_SENT"

C29_TeaserOnlyPublic ==
  sms.kind = "teaser" =>
    /\ sms.attrs \subseteq PublicAttrs
    /\ sms.attrs \cap PrivateAttrs = {}
    /\ sms.lead_id \in leads
    /\ sms.url = NullUrl

C29_Witness ==
  /\ sms.kind = "teaser" /\ sms.attrs = PublicAttrs
  /\ last.op = "teaser" /\ last.sent = 1 /\ sms.lead_id = last.lead

\* The interactions of a lead on which handleLeadPayment recorded a payment.
PaymentRecorded(leadId) ==
  {x \in lead_interactions : x.lead_id = leadId /\ x.unlocked_at # NullTime}

\* C28: between requests, the paid count of every lead, the purchased-leads
\* figure and the revenue figure count every interaction on which a payment
\* completion was recorded, whatever its status has become since.
C28_PaidCountsRecordedPayments ==
  AllIdle =>
    /\ \A l \in leads : providers_paid(l) = Cardinality(PaymentRecorded(l))
    /\ purchased_leads = Cardinality({l \in leads : PaymentRecorded(l) # {}})
    /\ total_revenue_cents =
         LeadPriceCents *
           Cardinality({x \in lead_interactions :
                          x.lead_id \in leads /\ x.unlocked_at # NullTime})

C30_SnippetFreeOfPII ==
  last.op = "createLead" =>
    /\ TextLen(last.result) <= SnippetLimit
    /\ \A i \in 1..Len(last.result) :
         last.result[i] \notin {DashedPhone, ParenPhone, Email, ClientName}

\* C32: once a payment completion is recorded on the interaction of a pair
\* (unlocked_at set), no step of a later reply of that pair mints a checkout
\* session or stores another payment link on the row.
C32_NoNewLinkAfterPayment ==
  [][\A r \in Req :
       (/\ req[r].op = "reply" /\ Stepped(r)
        /\ \E x \in Rows(req[r].lead, req[r].provider) : x.unlocked_at # NullTime)
       => /\ sessions' = sessions
          /\ \A x \in Rows(req[r].lead, req[r].provider) :
               \E y \in lead_interactions' :
                 /\ y.id = x.id
                 /\ y.payment_link_url = x.payment_link_url
                 /\ y.checkout_session_id = x.checkout_session_id]_vars

\* C36: a step of a teaser dispatch, of a Y or N reply or of a payment
\* webhook for a pair neither changes, adds nor removes an interaction row
\* of any other pair, and the arrival of a request changes no row at all.
C36_OtherPairsUntouched ==
  [][/\ started' # started => lead_interactions' = lead_interactions
     /\ \A r \in Req :
          (/\ Stepped(r) /\ req[r].op \in {"teaser", "reply", "webhook"}
           /\ req[r].pc # "optout")
          => \A x \in lead_interactions \cup lead_interactions' :
               (x.lead_id # req[r].lead \/ x.provider_id # req[r].provider)
                 => x \in lead_interactions /\ x \in lead_interactions']_vars

C36_Witness ==
  \E r \in Req : \E x, y \in lead_interactions :
    /\ req[r].op = "reply" /\ req[r].pc = "yes_send_sms"
    /\ x.lead_id = req[r].lead /\ x.provider_id = req[r].provider
    /\ x.status = "PAYMENT_LINK_SENT"
    /\ y.lead_id = x.lead_id /\ y.provider_id # x.provider_id
    /\ y.status = "TEASER_SENT" /\ y.payment_link_url = NullUrl

\* C37: a reply from a phone number of no provider is answered with the
\* unknown-provider error before any handler runs, and a Y / N reply for a
\* pair without interaction is answered with the no-active-lead error; in
\* both cases no table is written, no session is minted and no SMS is sent.
C37_NotFoundChangesNothing ==
  [][/\ (/\ started' = started + 1 /\ last'.op = "reply"
         /\ (last'.provider = NULL \/ last'.pre = {}))
        => /\ db' = db /\ sessions' = sessions /\ sms' = NoSms
           /\ last'.provider = NULL =>
                /\ req' = req
                /\ last'.result = "error_unknown_provider"
     /\ \A r \in Req :
          (/\ req[r].op = "reply" /\ Stepped(r)
           /\ (IsYes(last.arg) \/ IsNo(last.arg)) /\ last.pre = {})
          => /\ db' = db /\ sessions' = sessions
             /\ sms' = NoSms /\ last'.sent = 0
             /\ req'[r] = Idle
             /\ last'.result = "error_no_active_lead"]_vars

C37_Witness ==
  /\ last.op = "reply" /\ last.arg = <<"Y">> /\ last.pre = {}
  /\ last.provider = "P2" /\ last.lead \in leads
  /\ last.result = "error_no_active_lead"
  /\ Rows(last.lead, "P2") = {} /\ Rows(last.lead, "P1") # {}
  /\ sessions = {} /\ sms = NoSms /\ provider_optouts = {}

\* C33: the status write that ends the resend path of a "Y" reply, which
\* read the link while the payment webhook of the pair had not yet written,
\* never replaces PAID, REVEAL_DETAILS_SENT or DONE: the row keeps the
\* status the payment handler gave it.
C33_YesNeverOverwritesPayment ==
  [][\A r \in Req :
       (At(r, "reply", "yes_resend_status") /\ Stepped(r)) =>
         \A x \in Rows(req[r].lead, req[r].provider) :
           x.status \in {"PAID", "REVEAL_DETAILS_SENT", "DONE"} =>
             \E y \in lead_interactions' : y.id = x.id /\ y.status = x.status]_vars

\* C38: every provider that getMatchingProviders returns for a teaser has
\* is_verified = true, with provider ids supplied and without.
C38_MatchedAreVerified ==
  last.op = "getMatchingProviders" =>
    \A p \in last.result : last.arg.table[p].is_verified

\* C31: a payments-webhook request whose signature does not verify is
\* answered 400 and leaves the jobs table as it was.
C31_UnsignedJobEventRejected ==
  [][(/\ started' = started + 1 /\ last'.op = "stripe_webhook"
      /\ last'.arg[1] = "unsigned")
       => last'.result \in {"400", "500"} /\ jobs' = jobs]_vars

\* C34: no job is covered by two transfers, and a transfer run lists no job
\* that has a transfer id.
C34_JobPaidOutOnce ==
  /\ \A t, u \in transfers : t # u => t.jobs \cap u.jobs = {}
  /\ \A k \in Runs : \A j \in runs[k].listed : j.transfer_id = NoTransfer

\* C35: a job in status transferred stays in status transferred, and no two
\* rows of the jobs table have the same session id.
C35_JobStatusForward ==
  [][/\ \A j \in jobs :
          j.status = "transferred" =>
            \E x \in jobs' : x.id = j.id /\ x.status = "transferred"
     /\ \A x, y \in jobs' : x.id = y.id => x = y]_vars

====
